---- MODULE Spec2Model ----
(***************************************************************************)
(* Model of get_replays (src/src/requests.rs): the paginated fetch loop    *)
(* and the binary decoder of one page of replay data.  Bytes are the       *)
(* integers 0..255, a buffer is a sequence of bytes.                        *)
(***************************************************************************)
EXTENDS Integers, Sequences, FiniteSets, TLC

-----------------------------------------------------------------------------
(* Program constants.                                                       *)

\* pages > 100 is rejected (requests.rs:63)
MaxPagesAllowed == 100
\* a response shorter than this holds no match (requests.rs:113)
MinResponseLen == 63
\* static header removed from every response (requests.rs:118)
HeaderLen == 61
\* minimum length of the first data part (requests.rs:142)
MinFirst == 3
\* minimum length of the second data part (requests.rs:163)
MinSecond == 20
\* minimum length of the third data part (requests.rs:200)
MinThird == 71
\* width of a player id (requests.rs:181, 266)
IdLen == 18
\* offset of the player name inside a data part (requests.rs:172, 209)
NameStart == 19
\* offset from which winner and timestamp are searched (requests.rs:224)
MetaStart == 38
\* width of the timestamp (requests.rs:234, 240)
TimeLen == 19

\* MATCH_SEP: \x01\x00\x00\x00
MATCH_SEP == <<1, 0, 0, 0>>
\* PLAYER_DATA_START: \x95\xb2
PLAYER_DATA_START == <<149, 178>>
\* b'\xb1', the byte that ends a player name
NameEnd == <<177>>
\* b'\xb3', the byte in front of the timestamp
TimeStart == <<179>>

-----------------------------------------------------------------------------
(* Byte-sequence helpers.                                                   *)

\* s[from..] with a 0-based offset, as in Rust
DropBytes(s, from) == SubSeq(s, from + 1, Len(s))

\* s[0..n]
TakeBytes(s, n) == SubSeq(s, 1, n)

\* the last n elements of a sequence, in their original order
\* (.rev().take(n).rev())
LastN(s, n) == IF Len(s) <= n THEN s ELSE SubSeq(s, Len(s) - n + 1, Len(s))

\* the least element of a non-empty set of integers
MinOf(S) == CHOOSE k \in S : \A j \in S : k <= j

\* pat occurs in s at position k (1-based)
OccursAt(s, pat, k) ==
    /\ k + Len(pat) - 1 <= Len(s)
    /\ \A j \in 1..Len(pat) : s[k + j - 1] = pat[j]

\* the positions >= from where pat occurs in s
Occurrences(s, pat, from) == {k \in from..Len(s) : OccursAt(s, pat, k)}

RECURSIVE SplitFrom(_, _, _)
SplitFrom(s, pat, start) ==
    LET occ == Occurrences(s, pat, start)
    IN  IF occ = {} THEN <<SubSeq(s, start, Len(s))>>
        ELSE LET k == MinOf(occ)
             IN  <<SubSeq(s, start, k - 1)>> \o SplitFrom(s, pat, k + Len(pat))

\* Regex::split / slice::split on a literal pattern: the pieces between the
\* non-overlapping leftmost occurrences of pat, empty pieces included
Split(s, pat) == SplitFrom(s, pat, 1)

\* .filter(|b| !b.is_empty())
NonEmpty(ss) == SelectSeq(ss, LAMBDA b : Len(b) > 0)

Sign(n) == IF n < 0 THEN -1 ELSE IF n > 0 THEN 1 ELSE 0

\* lexicographic comparison of two integer sequences: -1, 0 or 1
CmpSeq(a, b) ==
    LET n == IF Len(a) < Len(b) THEN Len(a) ELSE Len(b)
        diff == {k \in 1..n : a[k] # b[k]}
    IN  IF diff = {} THEN Sign(Len(a) - Len(b))
        ELSE Sign(a[MinOf(diff)] - b[MinOf(diff)])

-----------------------------------------------------------------------------
(* String::from_utf8_lossy: the code points of a byte sequence, every       *)
(* maximal invalid part replaced by U+FFFD.                                  *)

Replacement == 65533

IsCont(b) == b >= 128 /\ b <= 191

\* the range allowed for the second byte after lead byte b
SecondLo(b) == IF b = 224 THEN 160 ELSE IF b = 240 THEN 144 ELSE 128
SecondHi(b) == IF b = 237 THEN 159 ELSE IF b = 244 THEN 143 ELSE 191

\* number of bytes the sequence started by lead byte b needs (0: no lead byte)
Utf8Width(b) ==
    IF b < 128 THEN 1
    ELSE IF b >= 194 /\ b <= 223 THEN 2
    ELSE IF b >= 224 /\ b <= 239 THEN 3
    ELSE IF b >= 240 /\ b <= 244 THEN 4
    ELSE 0

\* the character decoded at the head of s, whose first byte is not ASCII:
\* <<code point, number of bytes consumed>>
Utf8Head(s) ==
    LET b == s[1]
        w == Utf8Width(b)
        ok2 == Len(s) >= 2 /\ s[2] >= SecondLo(b) /\ s[2] <= SecondHi(b)
        ok3 == ok2 /\ Len(s) >= 3 /\ IsCont(s[3])
        ok4 == ok3 /\ Len(s) >= 4 /\ IsCont(s[4])
    IN  IF w = 0 \/ ~ok2 THEN <<Replacement, 1>>
        ELSE IF w = 2 THEN <<(b - 192) * 64 + (s[2] - 128), 2>>
        ELSE IF ~ok3 THEN <<Replacement, 2>>
        ELSE IF w = 3
             THEN <<(b - 224) * 4096 + (s[2] - 128) * 64 + (s[3] - 128), 3>>
        ELSE IF ~ok4 THEN <<Replacement, 3>>
        ELSE <<(b - 240) * 262144 + (s[2] - 128) * 4096
                   + (s[3] - 128) * 64 + (s[4] - 128), 4>>

RECURSIVE Utf8Lossy(_)
Utf8Lossy(s) ==
    LET high == {k \in 1..Len(s) : s[k] >= 128}
    IN  IF high = {} THEN s
        ELSE LET k == MinOf(high)
                 c == Utf8Head(DropBytes(s, k - 1))
             IN  SubSeq(s, 1, k - 1) \o <<c[1]>> \o Utf8Lossy(DropBytes(s, k - 1 + c[2]))

-----------------------------------------------------------------------------
(* show_buf: the escaped, printable rendering of a buffer                    *)
(* (std::ascii::escape_default applied to every byte).                       *)

HexDigit(d) == IF d < 10 THEN 48 + d ELSE 87 + d

EscapeDefault(b) ==
    IF b = 9 THEN <<92, 116>>
    ELSE IF b = 13 THEN <<92, 114>>
    ELSE IF b = 10 THEN <<92, 110>>
    ELSE IF b = 39 \/ b = 34 \/ b = 92 THEN <<92, b>>
    ELSE IF b >= 32 /\ b <= 126 THEN <<b>>
    ELSE <<92, 120, HexDigit(b \div 16), HexDigit(b % 16)>>

RECURSIVE show_buf(_)
show_buf(buf) ==
    IF Len(buf) = 0 THEN <<>>
    ELSE IF Len(buf) = 1 THEN EscapeDefault(buf[1])
    ELSE LET h == Len(buf) \div 2
         IN  show_buf(SubSeq(buf, 1, h)) \o show_buf(SubSeq(buf, h + 1, Len(buf)))

-----------------------------------------------------------------------------
(* Results of the decoding steps.  A step yields a value, an error          *)
(* (Error::UnexpectedResponse and its relatives) or a panic.                 *)

NoErr == [kind |-> "None", msg |-> "", detail |-> <<>>]

Good(v) == [ok |-> TRUE, val |-> v, err |-> NoErr]

Fail(kind, msg, detail) ==
    [ok |-> FALSE, val |-> <<>>, err |-> [kind |-> kind, msg |-> msg, detail |-> detail]]

UnexpectedResponse(msg, detail) == Fail("UnexpectedResponse", msg, detail)

\* an out-of-range slice or index: the thread panics
Panic(what) == Fail("Panic", what, <<>>)

-----------------------------------------------------------------------------
(* Enum catalogs (Floor::from_u8, Character::from_u8).  A floor is held as  *)
(* its position in the ordered enumeration F1..F10, Celestial; a character  *)
(* as its position in the roster.                                            *)

CelestialByte == 99
CelestialOrd == 11
LastNumberedFloor == 10
RosterSize == 20

FloorFromU8(b) ==
    IF b >= 1 /\ b <= LastNumberedFloor THEN Good(b)
    ELSE IF b = CelestialByte THEN Good(CelestialOrd)
    ELSE Fail("ParsingBytesError", "could not parse floor", <<<<b>>>>)

CharacterFromU8(b) ==
    IF b >= 0 /\ b < RosterSize THEN Good(b)
    ELSE Fail("ParsingBytesError", "could not parse character", <<<<b>>>>)

-----------------------------------------------------------------------------
(* u64::from_str_radix(s, 10) on a string of at most 18 characters.  The    *)
(* value is held as <<high, low>>, its decimal digits above and below 10^9. *)

IsDigit(c) == c >= 48 /\ c <= 57

RECURSIVE DigitsValue(_, _)
DigitsValue(ds, acc) ==
    IF Len(ds) = 0 THEN acc ELSE DigitsValue(Tail(ds), acc * 10 + (Head(ds) - 48))

U64Value(ds) ==
    LET n == Len(ds)
    IN  IF n <= 9 THEN <<0, DigitsValue(ds, 0)>>
        ELSE <<DigitsValue(SubSeq(ds, 1, n - 9), 0), DigitsValue(SubSeq(ds, n - 8, n), 0)>>

ParseU64(s) ==
    LET ds == IF Len(s) > 0 /\ s[1] = 43 THEN Tail(s) ELSE s
    IN  IF Len(ds) = 0 THEN Fail("ParseIntError", "empty or lone sign", <<>>)
        ELSE IF \E k \in 1..Len(ds) : ~IsDigit(ds[k])
             THEN Fail("ParseIntError", "invalid digit", <<>>)
        ELSE Good(U64Value(ds))

-----------------------------------------------------------------------------
(* NaiveDateTime::parse_from_str(time, "%Y-%m-%d %H:%M:%S"): the format is  *)
(* the items %Y "-" %m "-" %d " " %H ":" %M ":" %S, matched from the left on  *)
(* the characters of the string.  A numeric item skips leading whitespace   *)
(* and takes 1 to `width` digits; %Y also takes a sign, and then any number *)
(* of digits; the blank of the format skips any whitespace, none included;  *)
(* what is left after %S is an error.  A timestamp is                        *)
(* <<Y, M, D, h, m, s, nanosecond>>; the second 60 is read as a leap second: *)
(* second 59 with 1,000,000,000 nanoseconds.                                 *)

IsLeap(y) == (y % 4 = 0 /\ y % 100 # 0) \/ y % 400 = 0

DaysInMonth(y, m) ==
    IF m = 2 THEN (IF IsLeap(y) THEN 29 ELSE 28)
    ELSE IF m \in {4, 6, 9, 11} THEN 30 ELSE 31

\* char::is_whitespace
IsSpace(c) ==
    \/ c \in {9, 10, 11, 12, 13, 32, 133, 160, 5760, 8232, 8233, 8239, 8287, 12288}
    \/ (c >= 8192 /\ c <= 8202)

\* str::trim_start
TrimStart(s) ==
    LET keep == {k \in 1..Len(s) : ~IsSpace(s[k])}
    IN  IF keep = {} THEN <<>> ELSE SubSeq(s, MinOf(keep), Len(s))

\* the number of leading ASCII digits of s, max at most
LeadingDigits(s, max) ==
    LET stop == {k \in 1..Len(s) : ~IsDigit(s[k])}
        n == IF stop = {} THEN Len(s) ELSE MinOf(stop) - 1
    IN  IF n > max THEN max ELSE n

\* the value an item read and what it left of the string
Scanned(v, rest) == Good([value |-> v, rest |-> rest])

\* scan::number(s, 1, max).  A number of more than 8 digits is reported as
\* out of range where it is scanned: it can only follow a sign, and in a
\* string of at most 19 characters the at most 9 characters behind it
\* cannot match the rest of the format, so that the parse fails in any case.
ScanNumber(s, max) ==
    LET n == LeadingDigits(s, max)
    IN  IF Len(s) = 0 THEN Fail("ParseError", "TooShort", <<>>)
        ELSE IF n = 0 THEN Fail("ParseError", "Invalid", <<>>)
        ELSE IF n > 8 THEN Fail("ParseError", "OutOfRange", <<>>)
        ELSE Scanned(DigitsValue(SubSeq(s, 1, n), 0), DropBytes(s, n))

\* the number read, with the sign that stood before it
Negated(r) == IF r.ok THEN Scanned(0 - r.val.value, r.val.rest) ELSE r

\* a numeric item of the format, on a string without leading whitespace
ScanSigned(s, width, signed) ==
    IF signed /\ Len(s) > 0 /\ s[1] = 45 THEN Negated(ScanNumber(Tail(s), Len(s)))
    ELSE IF signed /\ Len(s) > 0 /\ s[1] = 43 THEN ScanNumber(Tail(s), Len(s))
    ELSE ScanNumber(s, width)

\* a numeric item of the format
ScanNumeric(s, width, signed) == ScanSigned(TrimStart(s), width, signed)

\* a literal character of the format
ScanLiteral(s, c) ==
    IF Len(s) = 0 THEN Fail("ParseError", "TooShort", <<>>)
    ELSE IF s[1] # c THEN Fail("ParseError", "Invalid", <<>>)
    ELSE Scanned(c, Tail(s))

\* the values read so far, with the value of one more item
Parsed(vals, r) ==
    IF r.ok THEN Good([vals |-> Append(vals, r.val.value), rest |-> r.val.rest]) ELSE r

\* the items of the format, each applied to what the items before it left
ThenNumeric(prev, width, signed) ==
    IF prev.ok THEN Parsed(prev.val.vals, ScanNumeric(prev.val.rest, width, signed))
    ELSE prev

ThenLiteral(prev, c) ==
    IF prev.ok THEN Parsed(prev.val.vals, ScanLiteral(prev.val.rest, c)) ELSE prev

ThenSpace(prev) ==
    IF prev.ok THEN Good([vals |-> prev.val.vals, rest |-> TrimStart(prev.val.rest)])
    ELSE prev

\* %Y-%m-%d
ScanDate(t) ==
    ThenNumeric(
        ThenLiteral(
            ThenNumeric(
                ThenLiteral(
                    ThenNumeric(Good([vals |-> <<>>, rest |-> t]), 4, TRUE),
                    45),
                2, FALSE),
            45),
        2, FALSE)

\* %H:%M:%S
ScanTime(prev) ==
    ThenNumeric(
        ThenLiteral(
            ThenNumeric(
                ThenLiteral(
                    ThenNumeric(prev, 2, FALSE),
                    58),
                2, FALSE),
            58),
        2, FALSE)

\* what the items read: <<Y, "-", M, "-", D, h, ":", m, ":", s>>
ItemValues(r) ==
    IF ~r.ok THEN r
    ELSE IF Len(r.val.rest) > 0 THEN Fail("ParseError", "TooLong", <<>>)
    ELSE Good(r.val.vals)

\* the whole format applied to the string
ScanTimestamp(t) == ItemValues(ScanTime(ThenSpace(ScanDate(t))))

\* the years of NaiveDate
MinYear == -262143
MaxYear == 262142

\* the date and the time of day the values stand for
Resolved(v) ==
    LET y  == v[1]
        mo == v[3]
        d  == v[5]
        h  == v[6]
        mi == v[8]
        se == v[10]
    IN  IF y < MinYear \/ y > MaxYear \/ mo < 1 \/ mo > 12
           \/ d < 1 \/ d > DaysInMonth(y, mo)
           \/ h > 23 \/ mi > 59 \/ se > 60
        THEN Fail("ParseError", "OutOfRange", <<>>)
        ELSE IF se = 60 THEN Good(<<y, mo, d, h, mi, 59, 1000000000>>)
        ELSE Good(<<y, mo, d, h, mi, se, 0>>)

\* Resolved applied to the outcome of the scan
ResolvedIfScanned(f) == IF f.ok THEN Resolved(f.val) ELSE f

ParseTimestamp(t) == ResolvedIfScanned(ScanTimestamp(t))

-----------------------------------------------------------------------------
(* Field extraction from one match segment (the body of the inner loop).    *)

\* DataParts with .take(3) on the pieces in their original order
DataPartsFirstThree(raw_match) ==
    LET pieces == Split(raw_match, PLAYER_DATA_START)
    IN  IF Len(pieces) <= 3 THEN pieces ELSE SubSeq(pieces, 1, 3)

\* the data parts of a segment: the last three pieces of the split on
\* PLAYER_DATA_START, in their original order
DataParts(raw_match) == LastN(Split(raw_match, PLAYER_DATA_START), 3)

\* Section 1: {floor}{p1_char}{p2_char}
Section1(data) ==
    IF Len(data) < 1
    THEN UnexpectedResponse("Could not find first data part of response", <<>>)
    ELSE LET b == data[1]
             n == Len(b)
         IN  IF n < MinFirst
             THEN UnexpectedResponse("First data part does not have 3 bytes", <<>>)
             ELSE IF n < 3 THEN Panic("index out of bounds in first data part")
             ELSE Good([floor |-> b[n - 2], p1_char |-> b[n - 1], p2_char |-> b[n]])

\* the player name: the bytes from offset 19 up to the first \xb1
PlayerName(b) == Utf8Lossy(Split(DropBytes(b, NameStart), NameEnd)[1])

\* Section2 with the length check one byte short
Section2OffByOne(data, raw_match) ==
    IF Len(data) < 2
    THEN UnexpectedResponse("Could not find second data part of response", <<>>)
    ELSE LET b == data[2]
         IN  IF Len(b) < MinSecond - 1
             THEN UnexpectedResponse("Second data part does not have 20 bytes",
                                     <<<<Len(b)>>, show_buf(b), show_buf(raw_match)>>)
             ELSE IF NameStart > Len(b) \/ IdLen > Len(b)
                  THEN Panic("slice out of range in second data part")
             ELSE Good([id |-> Utf8Lossy(TakeBytes(b, IdLen)), name |-> PlayerName(b)])

\* Section 2: {p1_id [18 chars]}\xa_{p1_name}\xb1...
Section2(data, raw_match) ==
    IF Len(data) < 2
    THEN UnexpectedResponse("Could not find second data part of response", <<>>)
    ELSE LET b == data[2]
         IN  IF Len(b) < MinSecond
             THEN UnexpectedResponse("Second data part does not have 20 bytes",
                                     <<<<Len(b)>>, show_buf(b), show_buf(raw_match)>>)
             ELSE IF NameStart > Len(b) \/ IdLen > Len(b)
                  THEN Panic("slice out of range in second data part")
             ELSE Good([id |-> Utf8Lossy(TakeBytes(b, IdLen)), name |-> PlayerName(b)])

\* the last two pieces of b[38..] split on \xb3, last piece first
WinnerTimeBytes(b) ==
    LET pieces == Split(DropBytes(b, MetaStart), TimeStart)
        n == Len(pieces)
    IN  IF n >= 2 THEN <<pieces[n], pieces[n - 1]>> ELSE <<pieces[n]>>

\* Section 3: {p2_id}\xa_{p2_name}\xb1...{winner}\xb3{timestamp}
Section3(data, raw_match) ==
    IF Len(data) < 3
    THEN UnexpectedResponse("Could not find third data part of match", <<>>)
    ELSE LET b == data[3]
         IN  IF Len(b) < MinThird
             THEN UnexpectedResponse("Third data part does not have 71 bytes",
                                     <<<<Len(b)>>, show_buf(b), show_buf(raw_match)>>)
             ELSE IF NameStart > Len(b) \/ MetaStart > Len(b) \/ IdLen > Len(b)
                  THEN Panic("slice out of range in third data part")
             ELSE LET wt == WinnerTimeBytes(b)
                      rest == show_buf(DropBytes(b, MetaStart))
                  IN  IF Len(wt[1]) < TimeLen
                      THEN UnexpectedResponse("Not enough bytes to parse timestamp",
                                              <<rest>>)
                      ELSE IF Len(wt) < 2
                           THEN UnexpectedResponse(
                                    "Could not split bytes to parse winner", <<rest>>)
                      ELSE IF Len(wt[2]) = 0
                           THEN UnexpectedResponse("Could not find winner in bytes",
                                                   <<rest>>)
                      ELSE Good([id |-> Utf8Lossy(TakeBytes(b, IdLen)),
                                 name |-> PlayerName(b),
                                 winner |-> wt[2][Len(wt[2])],
                                 time |-> Utf8Lossy(TakeBytes(wt[1], TimeLen))])

-----------------------------------------------------------------------------
(* Record assembly (Match { ... }).                                          *)

NoMatch ==
    [floor |-> 0, timestamp |-> <<>>, winner |-> "",
     players |-> <<[id |-> <<>>, name |-> <<>>, character |-> 0],
                   [id |-> <<>>, name |-> <<>>, character |-> 0]>>]

Decoded(m) == [ok |-> TRUE, rec |-> m, err |-> NoErr]

NotDecoded(e) == [ok |-> FALSE, rec |-> NoMatch, err |-> e]

\* winner: 1 => Player1, 2 => Player2, anything else is an error
WinnerFromU8(w) ==
    IF w = 1 THEN Good("Player1")
    ELSE IF w = 2 THEN Good("Player2")
    ELSE UnexpectedResponse("Could not parse winner", <<<<w>>>>)

\* the fields are evaluated in the order of the struct expression; the first
\* one that fails ends the construction
ConstructMatch(s1, s2, s3) ==
    LET floor == FloorFromU8(s1.floor)
        ts    == ParseTimestamp(s3.time)
        id1   == ParseU64(s2.id)
        ch1   == CharacterFromU8(s1.p1_char)
        id2   == ParseU64(s3.id)
        ch2   == CharacterFromU8(s1.p2_char)
        win   == WinnerFromU8(s3.winner)
    IN  IF ~floor.ok THEN NotDecoded(floor.err)
        ELSE IF ~ts.ok
             THEN NotDecoded(UnexpectedResponse("Could not parse datetime",
                                                <<s3.time>>).err)
        ELSE IF ~id1.ok
             THEN NotDecoded(UnexpectedResponse("Could not parse u64 id from",
                                                <<s2.id>>).err)
        ELSE IF ~ch1.ok THEN NotDecoded(ch1.err)
        ELSE IF ~id2.ok
             THEN NotDecoded(UnexpectedResponse("Could not parse u64 id from",
                                                <<s3.id>>).err)
        ELSE IF ~ch2.ok THEN NotDecoded(ch2.err)
        ELSE IF ~win.ok THEN NotDecoded(win.err)
        ELSE Decoded([floor |-> floor.val, timestamp |-> ts.val, winner |-> win.val,
                      players |-> <<[id |-> id1.val, name |-> s2.name,
                                     character |-> ch1.val],
                                    [id |-> id2.val, name |-> s3.name,
                                     character |-> ch2.val]>>])

\* one iteration of the inner loop, up to the insertion into the set
DecodeSegment(raw_match) ==
    LET data == DataParts(raw_match)
        s1 == Section1(data)
        s2 == Section2(data, raw_match)
        s3 == Section3(data, raw_match)
    IN  IF ~s1.ok THEN NotDecoded(s1.err)
        ELSE IF ~s2.ok THEN NotDecoded(s2.err)
        ELSE IF ~s3.ok THEN NotDecoded(s3.err)
        ELSE ConstructMatch(s1.val, s2.val, s3.val)

-----------------------------------------------------------------------------
(* The set of matches (BTreeSet<Match>): a sequence kept in strictly        *)
(* ascending order of the derived total order on Match.                      *)

WinnerOrd(w) == IF w = "Player1" THEN 0 ELSE 1

CmpPlayer(p, q) ==
    IF CmpSeq(p.id, q.id) # 0 THEN CmpSeq(p.id, q.id)
    ELSE IF CmpSeq(p.name, q.name) # 0 THEN CmpSeq(p.name, q.name)
    ELSE Sign(p.character - q.character)

\* field by field, the first difference decides
CmpMatch(a, b) ==
    IF a.floor # b.floor THEN Sign(a.floor - b.floor)
    ELSE IF CmpSeq(a.timestamp, b.timestamp) # 0 THEN CmpSeq(a.timestamp, b.timestamp)
    ELSE IF CmpPlayer(a.players[1], b.players[1]) # 0
         THEN CmpPlayer(a.players[1], b.players[1])
    ELSE IF CmpPlayer(a.players[2], b.players[2]) # 0
         THEN CmpPlayer(a.players[2], b.players[2])
    ELSE Sign(WinnerOrd(a.winner) - WinnerOrd(b.winner))

\* BTreeInsert as a sorted insertion that keeps equal elements
BTreeInsertKeepEqual(set, m) ==
    SelectSeq(set, LAMBDA x : CmpMatch(x, m) < 0) \o <<m>>
        \o SelectSeq(set, LAMBDA x : CmpMatch(x, m) >= 0)

\* BTreeInsert as a push at the end, unless an equal element is there
BTreeInsertAtEnd(set, m) ==
    IF \E k \in 1..Len(set) : CmpMatch(set[k], m) = 0 THEN set ELSE Append(set, m)

\* matches.insert(match_data): an equal element is kept, not added twice
BTreeInsert(set, m) ==
    SelectSeq(set, LAMBDA x : CmpMatch(x, m) < 0)
        \o (IF \E k \in 1..Len(set) : CmpMatch(set[k], m) = 0 THEN <<>> ELSE <<m>>)
        \o SelectSeq(set, LAMBDA x : CmpMatch(x, m) >= 0)

-----------------------------------------------------------------------------
(* The wire layout of a segment, as the decoder's comment describes it:     *)
(*   {floor}{p1_char}{p2_char}                                               *)
(*   \x95\xb2{p1_id}\xa_{p1_name}\xb1{p1_some_number}\xaf{p1_online_id}\x07  *)
(*   \x95\xb2{p2_id}\xa_{p2_name}\xb1{p2_some_number}\xaf{p2_online_id}\t    *)
(*           {winner}\xb3{timestamp}                                         *)
(* used to build the responses the remote service sends.                     *)

Pow10(k) == IF k = 0 THEN 1 ELSE IF k = 1 THEN 10 ELSE IF k = 2 THEN 100
            ELSE IF k = 3 THEN 1000 ELSE IF k = 4 THEN 10000
            ELSE IF k = 5 THEN 100000 ELSE IF k = 6 THEN 1000000
            ELSE IF k = 7 THEN 10000000 ELSE 100000000

\* n as w ASCII decimal digits, zero padded (w <= 9)
Digits(n, w) == [k \in 1..w |-> 48 + ((n \div Pow10(w - k)) % 10)]

RECURSIVE Utf8Encode(_)
Utf8Encode(cs) ==
    IF Len(cs) = 0 THEN <<>>
    ELSE LET c == Head(cs)
             e == IF c < 128 THEN <<c>>
                  ELSE IF c < 2048 THEN <<192 + (c \div 64), 128 + (c % 64)>>
                  ELSE IF c < 65536
                       THEN <<224 + (c \div 4096), 128 + ((c \div 64) % 64),
                              128 + (c % 64)>>
                  ELSE <<240 + (c \div 262144), 128 + ((c \div 4096) % 64),
                         128 + ((c \div 64) % 64), 128 + (c % 64)>>
         IN  e \o Utf8Encode(Tail(cs))

FloorToU8(f) == IF f = CelestialOrd THEN CelestialByte ELSE f

WinnerToU8(w) == IF w = "Player1" THEN 1 ELSE 2

EncodeId(id) == Digits(id[1], 9) \o Digits(id[2], 9)

EncodeTime(t) ==
    Digits(t[1], 4) \o <<45>> \o Digits(t[2], 2) \o <<45>> \o Digits(t[3], 2) \o <<32>>
        \o Digits(t[4], 2) \o <<58>> \o Digits(t[5], 2) \o <<58>>
        \o Digits(t[6] + (t[7] \div 1000000000), 2)

\* {some_number}: 17 bytes; {online_id}: 15 bytes
SomeNumber == [k \in 1..17 |-> 48 + (k % 10)]
OnlineId == [k \in 1..15 |-> 97 + (k % 6)]

\* {id}\xa_{name}\xb1{some_number}\xaf{online_id}
PlayerPart(idBytes, nameBytes) ==
    idBytes \o <<160 + (Len(nameBytes) % 32)>> \o nameBytes \o NameEnd
        \o SomeNumber \o <<175>> \o OnlineId

FirstPart(floor, c1, c2) == <<255, 255, floor, c1, c2>>

SecondPart(idBytes, nameBytes) == PlayerPart(idBytes, nameBytes) \o <<7>>

ThirdPart(idBytes, nameBytes, winner, timeBytes) ==
    PlayerPart(idBytes, nameBytes) \o <<9, winner>> \o TimeStart \o timeBytes

Segment(f1, f2, f3) == f1 \o PLAYER_DATA_START \o f2 \o PLAYER_DATA_START \o f3

EncodeSegment(m) ==
    Segment(FirstPart(FloorToU8(m.floor), m.players[1].character,
                      m.players[2].character),
            SecondPart(EncodeId(m.players[1].id), Utf8Encode(m.players[1].name)),
            ThirdPart(EncodeId(m.players[2].id), Utf8Encode(m.players[2].name),
                      WinnerToU8(m.winner), EncodeTime(m.timestamp)))

\* the static header in front of every response
Header == [k \in 1..HeaderLen |-> k % 251]

RECURSIVE JoinSegments(_)
JoinSegments(segs) ==
    IF Len(segs) = 0 THEN <<>>
    ELSE Head(segs) \o MATCH_SEP \o JoinSegments(Tail(segs))

\* a response: the header, then the segments, each followed by MATCH_SEP
Page(segs) == [status |-> "ok", body |-> Header \o JoinSegments(segs)]

\* a response that never arrives
TransportError == [status |-> "error", body |-> <<>>]

\* a response whose body cannot be read
BodyError == [status |-> "cut", body |-> <<>>]

-----------------------------------------------------------------------------
(* get_replays as a state machine.                                           *)

VARIABLES
    server,     \* the responses the remote service gives, page by page
    pc,         \* "idle"; "loop": before an iteration of `for i in 0..pages`;
                \* "send", "bytes": waiting at `.send().await`, `.bytes().await`;
                \* "done": returned; "dropped": the future was dropped
    pages,      \* argument: number of pages to query
    min_floor,  \* argument
    max_floor,  \* argument
    i,          \* the loop variable
    requests,   \* the requests posted so far
    bytes,      \* the body of the last response
    matches,    \* the BTreeSet of matches
    result      \* what the call returned

vars == <<server, pc, pages, min_floor, max_floor, i, requests, bytes, matches, result>>

\* number of pages of data the modelled service holds
MaxPages == 2

NoResult == [tag |-> "None", matches |-> <<>>, err |-> NoErr]

\* Ok(matches.into_iter())
Ok(set) == [tag |-> "Ok", matches |-> set, err |-> NoErr]

\* Err(e): a failure carries no matches
Err(e) == [tag |-> "Err", matches |-> <<>>, err |-> e]

\* CheckArguments with `pages >= 100`
CheckArgumentsInclusive(p, lo, hi) ==
    IF p >= MaxPagesAllowed
    THEN Fail("InvalidArguments", "Cannot query more than 100 pages", <<<<p>>>>)
    ELSE IF lo > hi
         THEN Fail("InvalidArguments", "min_floor is larger than max_floor",
                   <<<<lo>>, <<hi>>>>)
    ELSE Good(<<>>)

\* `if pages > 100` and `if min_floor > max_floor`
CheckArguments(p, lo, hi) ==
    IF p > MaxPagesAllowed
    THEN Fail("InvalidArguments", "Cannot query more than 100 pages", <<<<p>>>>)
    ELSE IF lo > hi
         THEN Fail("InvalidArguments", "min_floor is larger than max_floor",
                   <<<<lo>>, <<hi>>>>)
    ELSE Good(<<>>)

\* what the service answers to the request for page k (0-based): past its
\* last page of data, the header alone
ServerAnswer(k) ==
    IF k < Len(server) THEN server[k + 1] ELSE [status |-> "ok", body |-> Header]

\* OnlyHeader with the length of the header as the threshold
OnlyHeaderExact(b) == Len(b) < HeaderLen

\* HeaderOnlyResult that forgets what was already found
HeaderOnlyResultEmpty(set) == Ok(<<>>)

\* `if bytes.len() < 63`
OnlyHeader(b) == Len(b) < MinResponseLen

\* `return Ok(matches.into_iter())` when only the header is present
HeaderOnlyResult(set) == Ok(set)

\* MATCH_SEP.split(&bytes.slice(61..)).filter(|b| !b.is_empty())
RawMatches(b) == NonEmpty(Split(DropBytes(b, HeaderLen), MATCH_SEP))

\* DecodeAll that skips a segment that does not decode
RECURSIVE DecodeAllSkipping(_, _)
DecodeAllSkipping(segs, set) ==
    IF Len(segs) = 0 THEN [ok |-> TRUE, set |-> set, err |-> NoErr]
    ELSE LET d == DecodeSegment(Head(segs))
         IN  IF ~d.ok THEN DecodeAllSkipping(Tail(segs), set)
             ELSE DecodeAllSkipping(Tail(segs), BTreeInsert(set, d.rec))

\* the inner loop: every segment is decoded and inserted, the first failure
\* ends the loop (and the call); `set` is then the set as the failure found it
RECURSIVE DecodeAll(_, _)
DecodeAll(segs, set) ==
    IF Len(segs) = 0 THEN [ok |-> TRUE, set |-> set, err |-> NoErr]
    ELSE LET d == DecodeSegment(Head(segs))
         IN  IF ~d.ok THEN [ok |-> FALSE, set |-> set, err |-> d.err]
             ELSE DecodeAll(Tail(segs), BTreeInsert(set, d.rec))

\* the call and its argument checks
Call(p, lo, hi) ==
    /\ pc = "idle"
    /\ pages' = p
    /\ min_floor' = lo
    /\ max_floor' = hi
    /\ i' = 0
    /\ matches' = <<>>
    /\ LET c == CheckArguments(p, lo, hi)
       IN  IF c.ok THEN pc' = "loop" /\ result' = result
           ELSE pc' = "done" /\ result' = Err(c.err)
    /\ UNCHANGED <<server, requests, bytes>>

\* an iteration of the outer loop begins: the request for page i is posted
\* and the call waits for the response (`.send().await`)
SendRequest ==
    /\ pc = "loop"
    /\ i < pages
    /\ requests' = Append(requests, [page |-> i, min |-> min_floor, max |-> max_floor])
    /\ pc' = "send"
    /\ UNCHANGED <<server, pages, min_floor, max_floor, i, bytes, matches, result>>

\* the response comes, or the transport fails (`?`); the call then waits
\* for the body (`response.bytes().await`)
AwaitResponse ==
    /\ pc = "send"
    /\ IF ServerAnswer(i).status = "error"
       THEN /\ result' = Err(Fail("Reqwest", "transport failure", <<>>).err)
            /\ pc' = "done"
       ELSE /\ pc' = "bytes"
            /\ UNCHANGED result
    /\ UNCHANGED <<server, pages, min_floor, max_floor, i, requests, bytes, matches>>

\* the body comes, or its transfer fails (`?`); it is decoded segment by
\* segment into the set
ReadBody ==
    /\ pc = "bytes"
    /\ LET response == ServerAnswer(i)
       IN  IF response.status # "ok"
           THEN /\ result' = Err(Fail("Reqwest", "body transfer failure", <<>>).err)
                /\ pc' = "done"
                /\ UNCHANGED <<bytes, matches, i>>
           ELSE /\ bytes' = response.body
                /\ IF OnlyHeader(response.body)
                   THEN /\ result' = HeaderOnlyResult(matches)
                        /\ pc' = "done"
                        /\ UNCHANGED <<matches, i>>
                   ELSE LET d == DecodeAll(RawMatches(response.body), matches)
                        IN  /\ matches' = d.set
                            /\ IF d.ok
                               THEN /\ i' = i + 1
                                    /\ pc' = "loop"
                                    /\ UNCHANGED result
                               ELSE /\ result' = Err(d.err)
                                    /\ pc' = "done"
                                    /\ UNCHANGED i
    /\ UNCHANGED <<server, pages, min_floor, max_floor, requests>>

\* the caller drops the future while the call waits: the call never returns
Cancel ==
    /\ pc \in {"send", "bytes"}
    /\ pc' = "dropped"
    /\ UNCHANGED <<server, pages, min_floor, max_floor, i, requests, bytes, matches, result>>

\* the loop is over: Ok(matches.into_iter())
Finish ==
    /\ pc = "loop"
    /\ i >= pages
    /\ result' = Ok(matches)
    /\ pc' = "done"
    /\ UNCHANGED <<server, pages, min_floor, max_floor, i, requests, bytes, matches>>

-----------------------------------------------------------------------------
(* The data of the modelled service.                                         *)

MkPlayer(hi, lo, name, ch) == [id |-> <<hi, lo>>, name |-> name, character |-> ch]

MkMatch(floor, ts, p1, p2, w) ==
    [floor |-> floor, timestamp |-> ts, winner |-> w, players |-> <<p1, p2>>]

PlayerAl == MkPlayer(210611132, 841904307, <<65, 108>>, 0)
PlayerBo == MkPlayer(123456789, 12345678, <<66, 111>>, 1)
PlayerBp == MkPlayer(123456789, 12345678, <<66, 112>>, 1)

MatchA == MkMatch(10, <<2023, 1, 1, 12, 0, 0, 0>>, PlayerAl, PlayerBo, "Player1")
MatchB == MkMatch(CelestialOrd, <<2023, 1, 1, 12, 0, 1, 0>>, PlayerBo, PlayerAl, "Player2")
MatchC == MkMatch(1, <<2022, 12, 31, 23, 59, 59, 0>>, PlayerAl, PlayerBo, "Player2")
\* MatchA but for the last letter of the second player's name
MatchE == MkMatch(10, <<2023, 1, 1, 12, 0, 0, 0>>, PlayerAl, PlayerBp, "Player1")

SegA == EncodeSegment(MatchA)
SegB == EncodeSegment(MatchB)
SegC == EncodeSegment(MatchC)
SegE == EncodeSegment(MatchE)

IdAl == EncodeId(PlayerAl.id)
IdBo == EncodeId(PlayerBo.id)
TimeA == EncodeTime(MatchA.timestamp)

\* the three data parts of SegA
PartA1 == FirstPart(10, 0, 1)
PartA2 == SecondPart(IdAl, <<65, 108>>)
PartA3 == ThirdPart(IdBo, <<66, 111>>, 1, TimeA)

\* a segment whose winner byte is 3
SegBadWinner == Segment(PartA1, PartA2, ThirdPart(IdBo, <<66, 111>>, 3, TimeA))
\* a segment whose second data part has 19 bytes
SegShortSecond == Segment(PartA1, TakeBytes(PartA2, MinSecond - 1), PartA3)

\* the pages the service may hold in the multi-page runs
PagePool ==
    { Page(<<SegA, SegB>>),
      Page(<<SegB, SegA>>),
      Page(<<SegA, SegA>>),
      Page(<<SegE, SegC>>),
      Page(<<SegC, SegBadWinner, SegShortSecond, SegB>>),
      [status |-> "ok", body |-> Header],
      TransportError }

Servers == [1..MaxPages -> PagePool]

PagesArgs == (0..MaxPages) \cup {MaxPagesAllowed, MaxPagesAllowed + 1}

\* <<min_floor, max_floor>>
FloorArgs == {<<1, CelestialOrd>>, <<CelestialOrd, CelestialOrd>>, <<CelestialOrd, 1>>}

Init ==
    /\ server \in Servers
    /\ pc = "idle"
    /\ pages = 0
    /\ min_floor = 1
    /\ max_floor = 1
    /\ i = 0
    /\ requests = <<>>
    /\ bytes = <<>>
    /\ matches = <<>>
    /\ result = NoResult

Next ==
    \/ \E p \in PagesArgs, f \in FloorArgs : Call(p, f[1], f[2])
    \/ SendRequest
    \/ AwaitResponse
    \/ ReadBody
    \/ Cancel
    \/ Finish

Spec == Init /\ [][Next]_vars

-----------------------------------------------------------------------------
(* Single responses for the decoder: short buffers, encoded synthetic       *)
(* records, malformed segments, segments with leading noise.                 *)

Body(b) == [status |-> "ok", body |-> b]

\* buffers of every length below the threshold, with three kinds of content
ShortContents ==
    { Page(<<SegA>>).body, SegA, [k \in 1..MinResponseLen |-> 1] }

ShortResponses ==
    { Body(TakeBytes(c, n)) : c \in ShortContents, n \in 0..(MinResponseLen - 1) }

\* names: "A", "", "Bob", "é", twenty x, "³", an emoji,
\* "Muñoz" (ñ is \xc3\xb1), U+5572 (\xe5\x95\xb2), U+0001 U+0000 U+0000 U+0000
PlainNames ==
    { <<65>>, <<>>, <<66, 111, 98>>, <<233>>, [k \in 1..20 |-> 120], <<179>>,
      <<128512>> }

MarkerNames == { <<77, 117, 241, 111, 122>>, <<21874>>, <<1, 0, 0, 0>> }

RecordsNamed(names) ==
    { MkMatch(f, <<2023, 1, 1, 12, 0, 0, 0>>,
              MkPlayer(210611132, 841904307, n[1], 0),
              MkPlayer(0, 7, n[2], 19), w) :
          f \in {1, CelestialOrd}, w \in {"Player1", "Player2"},
          n \in (names \X {<<66>>}) \cup ({<<65>>} \X names) }

SyntheticRecords ==
    RecordsNamed(PlainNames \cup MarkerNames)
        \cup { MatchA, MatchB, MatchC, MatchE,
               MkMatch(5, <<2024, 2, 29, 0, 0, 0, 0>>, PlayerBo, PlayerAl, "Player2"),
               MkMatch(10, <<9999, 12, 31, 23, 59, 59, 0>>,
                       MkPlayer(999999999, 999999999, <<65>>, 3), PlayerAl, "Player1") }

\* a third data part of exactly 71 bytes: a dummy user name, no online id
Part3Dummy ==
    IdBo \o <<173>> \o [k \in 1..13 |-> 100] \o NameEnd \o SomeNumber
        \o <<1>> \o TimeStart \o TimeA

FirstParts ==
    { PartA1, <<>>, <<10>>, <<10, 0>>, <<10, 0, 1>>,
      FirstPart(0, 0, 1), FirstPart(200, 0, 1), FirstPart(10, 200, 1),
      FirstPart(10, 0, 200), FirstPart(CelestialByte, 0, 1) }

SecondParts ==
    { PartA2, <<>>, TakeBytes(PartA2, MinSecond - 1), TakeBytes(PartA2, MinSecond),
      SecondPart([IdAl EXCEPT ![18] = 120], <<65, 108>>),
      SecondPart([IdAl EXCEPT ![1] = 43], <<65, 108>>),
      SecondPart([IdAl EXCEPT ![1] = 45], <<65, 108>>),
      IdAl \o <<162, 65, 108>> }

\* timestamps of 19 bytes that are not of the form YYYY-MM-DD HH:MM:SS
LooseTimes ==
    { <<43>> \o TakeBytes(TimeA, TimeLen - 1),     \* a plus sign, seconds of one digit
      <<32>> \o TakeBytes(TimeA, TimeLen - 1),     \* a leading blank
      [TimeA EXCEPT ![11] = 9],                    \* a tab for the blank
      [TimeA EXCEPT ![18] = 54],                   \* the second 60
      [TimeA EXCEPT ![18] = 54, ![19] = 49],       \* the second 61
      TakeBytes(TimeA, TimeLen - 1) \o <<32>>,     \* a trailing blank
      <<50, 48, 50, 51, 45, 48, 49, 45, 48, 49, 32, 32, 50, 58, 48, 48, 58, 48, 48>>,   \* a blank more, an hour of one digit
      <<50, 48, 50, 51, 45, 32, 49, 45, 32, 49, 32, 32, 49, 58, 32, 49, 58, 32, 49>>,   \* one digit behind a blank
      <<45, 48, 48, 49, 45, 48, 49, 45, 48, 49, 32, 48, 48, 58, 48, 48, 58, 48, 48>>,   \* a signed year
      <<50, 48, 50, 51, 45, 48, 49, 45, 48, 49, 194, 160, 50, 58, 48, 48, 58, 48, 48>>,   \* a no-break space (\xc2\xa0) for the blank
      <<32, 50, 48, 50, 51, 45, 48, 49, 45, 48, 49, 49, 50, 58, 48, 48, 58, 48, 48>>,   \* no blank between day and hour
      <<50, 48, 50, 51, 45, 49, 45, 49, 32, 49, 58, 49, 58, 49, 32, 32, 32, 32, 32>> }   \* characters left behind the seconds

ThirdParts ==
    { PartA3, Part3Dummy, <<>>,
      TakeBytes(PartA3, MinThird - 1), TakeBytes(PartA3, MinThird),
      TakeBytes(Part3Dummy, MinThird - 1),
      TakeBytes(PartA3, Len(PartA3) - 1),
      [PartA3 EXCEPT ![Len(PartA3) - TimeLen] = 0],
      ThirdPart(IdBo, <<66, 111>>, 179, TimeA),
      ThirdPart(IdBo, <<66, 111>>, 0, TimeA),
      ThirdPart(IdBo, <<66, 111>>, 2, TimeA),
      ThirdPart(IdBo, <<66, 111>>, 3, TimeA),
      ThirdPart([IdBo EXCEPT ![9] = 32], <<66, 111>>, 1, TimeA),
      ThirdPart(IdBo, <<66, 111>>, 1, [TimeA EXCEPT ![11] = 84]),
      ThirdPart(IdBo, <<66, 111>>, 1, [TimeA EXCEPT ![7] = 51]),
      ThirdPart(IdBo, <<66, 111>>, 1, EncodeTime(<<2023, 2, 30, 12, 0, 0, 0>>)),
      PartA3 \o <<0, 0>> }
        \cup { ThirdPart(IdBo, <<66, 111>>, 1, t) : t \in LooseTimes }

\* segments of three data parts, one part varied at a time
VariedSegments ==
    { Segment(x, PartA2, PartA3) : x \in FirstParts }
        \cup { Segment(PartA1, x, PartA3) : x \in SecondParts }
        \cup { Segment(PartA1, PartA2, x) : x \in ThirdParts }
        \cup { Segment(<<10>>, TakeBytes(PartA2, MinSecond - 1), <<>>),
               Segment(FirstPart(200, 0, 1), PartA2,
                       ThirdPart(IdBo, <<66, 111>>, 3, TimeA)) }

\* segments of fewer than three data parts
FewPartSegments ==
    { PartA1, <<10, 0>>, <<7>>, PartA3,
      PartA1 \o PLAYER_DATA_START \o PartA2,
      PartA2 \o PLAYER_DATA_START \o PartA3,
      <<10>> \o PLAYER_DATA_START \o PartA2,
      PartA1 \o PLAYER_DATA_START \o TakeBytes(PartA2, MinSecond - 1),
      PartA1 \o PLAYER_DATA_START,
      PLAYER_DATA_START }

\* what may precede the real data in a segment
Noises ==
    { <<0, 0>> \o PLAYER_DATA_START,
      PartA3 \o PLAYER_DATA_START \o <<5, 5, 5>> \o PLAYER_DATA_START,
      PLAYER_DATA_START }

NoisySegments == { n \o x : n \in Noises, x \in VariedSegments }

DecodePool ==
    ShortResponses
        \cup { Page(<<EncodeSegment(m)>>) : m \in SyntheticRecords }
        \cup { Page(<<x>>) : x \in VariedSegments \cup FewPartSegments \cup NoisySegments }
        \cup { Page(<<SegB, SegA>>), TransportError, BodyError }

\* the service holds one page
InitDecode ==
    /\ server \in { <<r>> : r \in DecodePool }
    /\ pc = "idle"
    /\ pages = 0
    /\ min_floor = 1
    /\ max_floor = 1
    /\ i = 0
    /\ requests = <<>>
    /\ bytes = <<>>
    /\ matches = <<>>
    /\ result = NoResult

SpecDecode == InitDecode /\ [][Next]_vars

-----------------------------------------------------------------------------
(* Vocabulary of the properties.                                             *)

\* pages requested so far: 0 .. Requested - 1
Requested == Len(requests)

\* pages whose response the call has dealt with: 0 .. Consumed - 1
Consumed == IF pc \in {"idle", "loop", "done"} THEN Requested ELSE Requested - 1

\* the response to page k came and is long enough to be decoded
FullPage(k) ==
    ServerAnswer(k).status = "ok" /\ ~(Len(ServerAnswer(k).body) < MinResponseLen)

\* the response to page k came and is below the threshold
ShortPage(k) ==
    ServerAnswer(k).status = "ok" /\ Len(ServerAnswer(k).body) < MinResponseLen

\* the segments of page k
SegmentsOf(k) == RawMatches(ServerAnswer(k).body)

\* the positions of the segments of page k that do not decode
BadSegments(k) ==
    LET segs == SegmentsOf(k) IN {j \in 1..Len(segs) : ~DecodeSegment(segs[j]).ok}

\* the records of the segments of pages 0 .. k - 1
RecordsOf(q) ==
    LET segs == SegmentsOf(q) IN {DecodeSegment(segs[j]).rec : j \in 1..Len(segs)}

RecordsBefore(k) == UNION {RecordsOf(q) : q \in 0..(k - 1)}

LeastMatch(S) == CHOOSE x \in S : \A y \in S : CmpMatch(x, y) <= 0

\* the elements of a set of records, least first
RECURSIVE Ascending(_)
Ascending(S) ==
    IF S = {} THEN <<>>
    ELSE LET least == LeastMatch(S) IN <<least>> \o Ascending(S \ {least})

DecodeFailure == result.tag = "Err" /\ result.err.kind \in {"UnexpectedResponse", "ParsingBytesError"}

Rejected == result.tag = "Err" /\ result.err.kind = "InvalidArguments"

-----------------------------------------------------------------------------
(* C1: a response shorter than 63 bytes, whatever its content, decodes to    *)
(* the empty sequence of records and never to a failure.                     *)
C1_ShortBufferIsEmptyResult ==
    (Consumed >= 1 /\ ShortPage(0)) => (pc = "done" /\ result = Ok(<<>>))

C1_Witness ==
    /\ pc = "done"
    /\ Requested = 1
    /\ ServerAnswer(0).status = "ok"
    /\ Len(ServerAnswer(0).body) = MinResponseLen - 1
    /\ bytes = ServerAnswer(0).body
    /\ result = Ok(<<>>)

(* C3: a call with pages > 100 or min_floor > max_floor is rejected with     *)
(* InvalidArguments before any request is posted and before anything is     *)
(* decoded; no other call is rejected by that check (pages = 100 and equal   *)
(* floors pass).                                                             *)
C3_ArgumentCheck ==
    pc # "idle" =>
        /\ Rejected <=> (pages > 100 \/ min_floor > max_floor)
        /\ Rejected => (pc = "done" /\ requests = <<>> /\ bytes = <<>> /\ matches = <<>>)
        /\ (pages = 100 /\ min_floor = max_floor /\ pc = "done") => Requested >= 1

C3_Witness ==
    /\ pc = "done"
    /\ pages = 101
    /\ min_floor <= max_floor
    /\ Rejected
    /\ requests = <<>>

(* C2: a decode failure on page k ends the call at once: the call returns    *)
(* the failure of the first segment of page k that does not decode, with no  *)
(* record of pages 0..k-1, and page k is the last page requested.            *)
C2_FailFast ==
    /\ \A k \in 0..(Consumed - 1) :
          LET bad == IF FullPage(k) THEN BadSegments(k) ELSE {}
          IN  bad # {} =>
                  /\ pc = "done"
                  /\ k = Requested - 1
                  /\ result = Err(DecodeSegment(SegmentsOf(k)[MinOf(bad)]).err)
    /\ (pc = "done" /\ DecodeFailure) =>
          /\ Requested >= 1
          /\ FullPage(Requested - 1)
          /\ BadSegments(Requested - 1) # {}
    /\ result.tag = "Err" => result.matches = <<>>
    /\ result.tag = "Ok" => result.err = NoErr

C2_Witness ==
    /\ pc = "done"
    /\ Requested = 2
    /\ DecodeFailure
    /\ matches # <<>>
    /\ result.matches = <<>>
    /\ Len(SegmentsOf(1)) > MinOf(BadSegments(1))
    /\ MinOf(BadSegments(1)) > 1

(* C9: when the response to page k is shorter than 63 bytes the call stops   *)
(* there: page k is the last page requested and the call returns, as a       *)
(* success, the records of pages 0..k-1 in ascending order without repeats.  *)
C9_ShortPageStopsTheCall ==
    \A k \in 0..(Consumed - 1) :
        ShortPage(k) =>
            /\ pc = "done"
            /\ k = Requested - 1
            /\ result = Ok(Ascending(RecordsBefore(k)))

C9_Witness ==
    /\ pc = "done"
    /\ pages > 2
    /\ Requested = 2
    /\ ShortPage(1)
    /\ Len(result.matches) = 2
    /\ result.tag = "Ok"

(* C5: a successful result holds no two equal records, and every segment     *)
(* that was decoded, however often it occurred in one page or across pages,  *)
(* accounts for exactly one record of the result.                            *)
C5_NoDuplicates ==
    (pc = "done" /\ result.tag = "Ok") =>
        /\ \A a, b \in 1..Len(result.matches) :
              a # b => result.matches[a] # result.matches[b]
        /\ \A k \in 0..(i - 1) :
              LET segs == SegmentsOf(k)
              IN  \A j \in 1..Len(segs) :
                      LET m == DecodeSegment(segs[j]).rec
                      IN  Cardinality({ n \in 1..Len(result.matches) :
                                          result.matches[n] = m }) = 1

C5_Witness ==
    /\ pc = "done"
    /\ result.tag = "Ok"
    /\ pages = 2
    /\ server[1] = Page(<<SegA, SegA>>)
    /\ server[2] = Page(<<SegB, SegA>>)
    /\ result.matches = <<MatchA, MatchB>>

(* C6: when every segment is well formed the result is the ascending         *)
(* sequence, in the total order on records, of the set of records of the     *)
(* segments received: it depends on that set alone, not on the order in      *)
(* which the segments came within a page or across pages.                    *)
C6_OrderIndependent ==
    (pc = "done" /\ result.tag = "Ok") =>
        /\ \A a, b \in 1..Len(result.matches) :
              a < b => CmpMatch(result.matches[a], result.matches[b]) < 0
        /\ result.matches = Ascending(RecordsBefore(i))

C6_Witness ==
    /\ pc = "done"
    /\ result.tag = "Ok"
    /\ pages = 2
    /\ server[1] = Page(<<SegB, SegA>>)
    /\ server[2] = Page(<<SegE, SegC>>)
    /\ result.matches = <<MatchC, MatchA, MatchE, MatchB>>

-----------------------------------------------------------------------------
(* The raw fields of a segment, read off its bytes.                          *)

\* number of pieces the segment splits into on the 2-byte marker
PartCount(seg) == Cardinality(Occurrences(seg, PLAYER_DATA_START, 1)) + 1

\* the greatest element of a non-empty set of integers
MaxOf(S) == CHOOSE k \in S : \A j \in S : j <= k

\* the positions of \xb3 in the bytes of the third data part from offset 38
MarkersIn(meta) == {k \in 1..Len(meta) : meta[k] = 179}

\* no \xb3, fewer than 19 bytes after the last \xb3, or nothing between the
\* last \xb3 and what precedes it
MalformedMeta(meta) ==
    LET mk == MarkersIn(meta)
    IN  \/ mk = {}
        \/ LET k == MaxOf(mk)
           IN  Len(meta) - k < 19 \/ k = 1 \/ meta[k - 1] = 179

\* a data part is missing or below its minimum, or the winner and timestamp
\* cannot be cut out of the third part
Malformed(seg) ==
    \/ PartCount(seg) < 3
    \/ LET d == DataParts(seg)
       IN  \/ Len(d[1]) < 3
           \/ Len(d[2]) < 20
           \/ Len(d[3]) < 71
           \/ MalformedMeta(DropBytes(d[3], 38))

RawFields(seg) ==
    LET d == DataParts(seg)
        n == Len(d[1])
        meta == DropBytes(d[3], 38)
        k == MaxOf(MarkersIn(meta))
    IN  [floor |-> d[1][n - 2], p1_char |-> d[1][n - 1], p2_char |-> d[1][n],
         p1_id |-> SubSeq(d[2], 1, 18), p2_id |-> SubSeq(d[3], 1, 18),
         winner |-> meta[k - 1],
         time |-> SubSeq(meta, k + 1, k + 19)]

DecimalId(b) ==
    \/ \A k \in 1..Len(b) : b[k] \in 48..57
    \/ b[1] = 43 /\ \A k \in 2..Len(b) : b[k] \in 48..57

\* 19 bytes of the form YYYY-MM-DD HH:MM:SS
FixedLayout(t) ==
    /\ Len(t) = 19
    /\ \A k \in {1, 2, 3, 4, 6, 7, 9, 10, 12, 13, 15, 16, 18, 19} : t[k] \in 48..57
    /\ t[5] = 45 /\ t[8] = 45 /\ t[11] = 32 /\ t[14] = 58 /\ t[17] = 58

\* every field but the timestamp is valid
ValidButTime(f) ==
    /\ f.floor \in (1..10) \cup {99}
    /\ f.p1_char \in 0..(RosterSize - 1)
    /\ f.p2_char \in 0..(RosterSize - 1)
    /\ DecimalId(f.p1_id)
    /\ DecimalId(f.p2_id)
    /\ f.winner \in {1, 2}

\* the timestamp is a date and a time of day written as YYYY-MM-DD HH:MM:SS
ValidFields(f) ==
    /\ ValidButTime(f)
    /\ FixedLayout(f.time)
    /\ ParseTimestamp(f.time).ok

\* the timestamp is one the parser accepts for the format
ParsedFields(f) ==
    /\ ValidButTime(f)
    /\ ParseTimestamp(Utf8Lossy(f.time)).ok

\* record m carries the fields f, the timestamp aside
BuiltButTime(m, f) ==
    /\ FloorToU8(m.floor) = f.floor
    /\ m.players[1].character = f.p1_char
    /\ m.players[2].character = f.p2_char
    /\ EncodeId(m.players[1].id) = (IF f.p1_id[1] = 43 THEN <<48>> \o Tail(f.p1_id) ELSE f.p1_id)
    /\ EncodeId(m.players[2].id) = (IF f.p2_id[1] = 43 THEN <<48>> \o Tail(f.p2_id) ELSE f.p2_id)
    /\ (m.winner = "Player1") <=> (f.winner = 1)
    /\ (m.winner = "Player2") <=> (f.winner = 2)

\* record m carries the fields f
BuiltFrom(m, f) == BuiltButTime(m, f) /\ EncodeTime(m.timestamp) = f.time

\* record m carries the fields f, its timestamp as the parser read it
BuiltAsParsed(m, f) ==
    BuiltButTime(m, f) /\ m.timestamp = ParseTimestamp(Utf8Lossy(f.time)).val

(* C7: a non-empty segment with a missing data part, a data part below its  *)
(* minimum (3, 20, 71 bytes), no \xb3 from offset 38 of the third part, a    *)
(* timestamp piece below 19 bytes or an empty winner piece makes the decode  *)
(* fail with a structural failure: no panic, no record.                      *)
C7_MalformedSegmentFails ==
    /\ result.err.kind # "Panic"
    /\ (Consumed >= 1 /\ FullPage(0)) =>
          LET segs == SegmentsOf(0)
          IN  \A j \in 1..Len(segs) :
                  Malformed(segs[j]) =>
                      /\ pc = "done"
                      /\ result.tag = "Err"
                      /\ result.err.kind = "UnexpectedResponse"
                      /\ result.matches = <<>>

C7_Witness ==
    /\ pc = "done"
    /\ Requested = 1
    /\ server[1] = Page(<<SegShortSecond>>)
    /\ Len(DataParts(SegShortSecond)[2]) = 19
    /\ result.tag = "Err"
    /\ result.err.msg = "Second data part does not have 20 bytes"

(* C8: decoding a segment is all or nothing: every record decoded was built  *)
(* from a segment whose floor, character, id, timestamp and winner fields    *)
(* are all valid, the timestamp being of the form YYYY-MM-DD HH:MM:SS, and   *)
(* a segment with one invalid field gives no record and makes the decode     *)
(* fail.                                                                     *)
C8_AllOrNothing ==
    (Consumed >= 1 /\ FullPage(0)) =>
        LET segs == SegmentsOf(0)
            sound == {j \in 1..Len(segs) : ~Malformed(segs[j])}
            valid == {j \in sound : ValidFields(RawFields(segs[j]))}
        IN  /\ (sound \ valid) # {} =>
                  (pc = "done" /\ result.tag = "Err" /\ result.matches = <<>>)
            /\ \A n \in 1..Len(matches) :
                  \E j \in valid : BuiltFrom(matches[n], RawFields(segs[j]))
            /\ result.tag = "Ok" => result.matches = matches

\* C8 holds when a valid timestamp is one the parser accepts for the format
\* and the timestamp of the record is what the parser read
C8_AllOrNothingAsParsed ==
    (Consumed >= 1 /\ FullPage(0)) =>
        LET segs == SegmentsOf(0)
            sound == {j \in 1..Len(segs) : ~Malformed(segs[j])}
            valid == {j \in sound : ParsedFields(RawFields(segs[j]))}
        IN  /\ (sound \ valid) # {} =>
                  (pc = "done" /\ result.tag = "Err" /\ result.matches = <<>>)
            /\ \A n \in 1..Len(matches) :
                  \E j \in valid : BuiltAsParsed(matches[n], RawFields(segs[j]))
            /\ result.tag = "Ok" => result.matches = matches

\* a record was built from a timestamp that is not of the fixed form
C8_LooseTimestampDecoded ==
    /\ pc = "done"
    /\ Requested = 1
    /\ server[1] = Page(<<Segment(PartA1, PartA2,
                                  ThirdPart(IdBo, <<66, 111>>, 1,
                                            <<43>> \o TakeBytes(TimeA, TimeLen - 1)))>>)
    /\ result = Ok(<<MatchA>>)

-----------------------------------------------------------------------------
\* what came of the only segment of a page: its record or its failure
Observed == IF result.tag = "Err" THEN NotDecoded(result.err) ELSE Decoded(matches[1])

\* the segment made of only the last three pieces of seg
Trimmed(seg) ==
    LET d == LastN(Split(seg, PLAYER_DATA_START), 3) IN Segment(d[1], d[2], d[3])

MissingPartMessages ==
    { "Could not find first data part of response",
      "Could not find second data part of response",
      "Could not find third data part of match" }

ShortPartMessages ==
    { "First data part does not have 3 bytes",
      "Second data part does not have 20 bytes" }

\* two failure texts that differ at most in the rendering of the whole segment
SameButForSegment(e, f) ==
    /\ e.kind = f.kind
    /\ e.msg = f.msg
    /\ \/ e.detail = f.detail
       \/ /\ Len(e.detail) = 3
          /\ Len(f.detail) = 3
          /\ e.detail[1] = f.detail[1]
          /\ e.detail[2] = f.detail[2]

(* C10, as stated: a segment of more than three pieces decodes to the same  *)
(* result as the segment made of its last three pieces, and a segment of    *)
(* fewer than three pieces yields a failure for a missing data part.         *)
C10_AsStated ==
    (Consumed >= 1 /\ FullPage(0)) =>
        LET segs == SegmentsOf(0)
        IN  Len(segs) = 1 =>
                /\ PartCount(segs[1]) > 3 => Observed = DecodeSegment(Trimmed(segs[1]))
                /\ PartCount(segs[1]) < 3 =>
                      (result.tag = "Err" /\ result.err.msg \in MissingPartMessages)

(* C10, amended: a segment of more than three pieces decodes to the same    *)
(* record as the segment made of its last three pieces, or fails with the   *)
(* same failure but for the rendering of the whole segment in its text; a   *)
(* segment of fewer than three pieces yields no record but a structural     *)
(* failure, for its first undersized data part if it has one and for the    *)
(* missing data part otherwise.                                              *)
C10_FragmentSelection ==
    (Consumed >= 1 /\ FullPage(0)) =>
        LET segs == SegmentsOf(0)
        IN  Len(segs) = 1 =>
                /\ PartCount(segs[1]) > 3 =>
                      LET t == DecodeSegment(Trimmed(segs[1]))
                      IN  /\ Observed.ok = t.ok
                          /\ Observed.rec = t.rec
                          /\ SameButForSegment(Observed.err, t.err)
                /\ PartCount(segs[1]) < 3 =>
                      /\ pc = "done"
                      /\ result.tag = "Err"
                      /\ result.err.kind = "UnexpectedResponse"
                      /\ result.matches = <<>>
                      /\ result.err.msg \in MissingPartMessages \cup ShortPartMessages
                      /\ result.err.msg \in MissingPartMessages <=>
                            \A k \in 1..PartCount(segs[1]) :
                                Len(Split(segs[1], PLAYER_DATA_START)[k]) >= <<3, 20>>[k]

C10_Witness ==
    /\ Requested = 1
    /\ server[1] = Page(<<PartA3 \o PLAYER_DATA_START \o <<5, 5, 5>> \o PLAYER_DATA_START \o SegA>>)
    /\ PartCount(SegmentsOf(0)[1]) = 5
    /\ result.tag # "Err"
    /\ matches = <<MatchA>>

-----------------------------------------------------------------------------
\* the response that carries the encoding of one synthetic record
RoundTripPages == [m \in SyntheticRecords |-> Page(<<EncodeSegment(m)>>)]

(* C4: encoding a synthetic record into the wire layout behind the header   *)
(* and decoding that buffer yields exactly that record.                      *)
C4_RoundTrip ==
    Consumed >= 1 =>
        \A m \in SyntheticRecords :
            server[1] = RoundTripPages[m] => (result.tag # "Err" /\ matches = <<m>>)

\* the records whose names hold none of the bytes the decoder cuts on
PlainRecords ==
    { m \in SyntheticRecords :
        \A q \in 1..2 : LET n == Utf8Encode(m.players[q].name)
                        IN  /\ Occurrences(n, NameEnd, 1) = {}
                            /\ Occurrences(n, PLAYER_DATA_START, 1) = {}
                            /\ Occurrences(n, MATCH_SEP, 1) = {} }

\* C4 holds of the records whose names hold none of those bytes
C4_RoundTripPlainNames ==
    Consumed >= 1 =>
        \A m \in PlainRecords :
            server[1] = RoundTripPages[m] => (result.tag # "Err" /\ matches = <<m>>)

====
